---- MODULE Spec2Model ----
(***************************************************************************)
(* Model of the iceberg-go catalog / table core:                           *)
(*   catalog.GlueCatalog.GetTable / ListTables  (catalog/glue.go)          *)
(*   table.Table.Equals, table.New, table.NewFromLocation,                 *)
(*   table.TableBuilder, table.GenerateMetadataFileName (table/table.go)   *)
(* Go strings that are only compared for equality are TLA+ strings; the    *)
(* strings whose bytes matter (file names) are sequences of byte codes.    *)
(* A Go error is the chain of error values reached through Unwrap, the     *)
(* outermost first; the nil error is the empty chain.                      *)
(***************************************************************************)
EXTENDS Integers, Sequences, FiniteSets, TLC

VARIABLES backend, call, genPrev, genLast, eq, nfl, heap, builder, given, built, bOp

vars == <<backend, call, genPrev, genLast, eq, nfl, heap, builder, given, built, bOp>>

glueVars == <<backend, call>>
nameVars == <<genPrev, genLast>>
tableVars == <<eq, nfl>>
builderVars == <<heap, builder, given, built, bOp>>

(***************************************************************************)
(* Bounds of the model.                                                    *)
(***************************************************************************)
MaxIdentLen == 3
MaxBackendTables == 2

(***************************************************************************)
(* Go values shared by the packages.                                       *)
(***************************************************************************)
NoErr == <<>>

\* m[k] of a Go map: the zero value "" for an absent key (and for a nil map).
MapGet(m, k) == IF k \in DOMAIN m THEN m[k] ELSE ""

\* A *string: [nil |-> TRUE] or a pointer to val.
NilString == [nil |-> TRUE, val |-> ""]
StringPtr(s) == [nil |-> FALSE, val |-> s]
AwsString(s) == StringPtr(s)
AwsToString(p) == IF p.nil THEN "" ELSE p.val

(***************************************************************************)
(* package catalog: errors                                                 *)
(***************************************************************************)
\* An error value: its dynamic type, the address it points to, and its text.
ErrNode(t, a, m) == [type |-> t, addr |-> a, msg |-> m]

\* The package-level sentinel; it lives at a static address.
ErrNoSuchTable == <<ErrNode("*errors.errorString", 0, "table does not exist")>>

\* The error types of the chain that declare an Is(error) bool method.
\* Neither the smithy/aws wrappers nor *types.EntityNotFoundException do.
HasIsMethod(t) == FALSE

\* An address no live error of the chain occupies: what &T{} evaluates to.
FreshAddr(chain) ==
  LET used == {chain[i].addr : i \in 1..Len(chain)} \cup {0}
  IN  (CHOOSE a \in used : \A b \in used : b <= a) + 1

\* errors.Is(err, target) for a pointer target: walk the Unwrap chain, a node
\* matches when it is the very same pointer (type and address) or its Is
\* method accepts the target.
ErrorsIs(chain, target) ==
  \E i \in 1..Len(chain) :
     \/ (chain[i].type = target.type /\ chain[i].addr = target.addr)
     \/ HasIsMethod(chain[i].type)

\* fmt.Errorf(".. %w", err): a new *fmt.wrapError in front of the cause.
Errorf(msg, cause) ==
  <<ErrNode("*fmt.wrapError", FreshAddr(cause), msg)>> \o cause

\* fmt.Errorf / errors.New without %w.
ErrorsNew(t, msg) == <<ErrNode(t, 1, msg)>>

(***************************************************************************)
(* The Glue backend behind the GlueAPI interface.                          *)
(***************************************************************************)
Databases == {"db1"}
TableNames == {"t1", "t2"}
TableTypes == {"ICEBERG", "HIVE"}
MetadataLocations == {"s3://b/m1.json"}

\* The Parameters maps a backend record can carry: each key present or absent.
ParameterMaps ==
  LET tt == {<<>>} \cup {[k \in {"table_type"} |-> v] : v \in TableTypes}
      ml == {<<>>} \cup {[k \in {"metadata_location"} |-> v] : v \in MetadataLocations}
  IN  {a @@ b : a \in tt, b \in ml}

\* Name pointers of listed records (a fake may leave Name nil).
NamePtrs == {StringPtr(n) : n \in TableNames} \cup {NilString}

HasRecord(db, namePtr) ==
  \E i \in 1..Len(backend.tables) :
     backend.tables[i].db = db /\ backend.tables[i].Name = namePtr

\* The backend's GetTable: the record, an EntityNotFoundException when there
\* is none, or another failure.  A real client wraps the modeled exception
\* in *smithy.OperationError and *http.ResponseError; a fake may return it bare.
GlueSvcGetTable(in, wrapped) ==
  IF backend.fault THEN
    [Table |-> [Name |-> NilString, Parameters |-> <<>>],
     err |-> <<ErrNode("*smithy.OperationError", 1, "operation error"),
               ErrNode("*types.AccessDeniedException", 2, "access denied")>>]
  ELSE IF HasRecord(in.DatabaseName.val, in.Name) THEN
    LET i == CHOOSE j \in 1..Len(backend.tables) :
               backend.tables[j].db = in.DatabaseName.val /\ backend.tables[j].Name = in.Name
    IN  [Table |-> [Name |-> backend.tables[i].Name,
                    Parameters |-> backend.tables[i].Parameters],
         err |-> NoErr]
  ELSE
    [Table |-> [Name |-> NilString, Parameters |-> <<>>],
     err |-> IF wrapped
             THEN <<ErrNode("*smithy.OperationError", 1, "operation error"),
                    ErrNode("*http.ResponseError", 2, "response error"),
                    ErrNode("*types.EntityNotFoundException", 3, "entity not found")>>
             ELSE <<ErrNode("*types.EntityNotFoundException", 1, "entity not found")>>]

\* The backend's GetTables: every record of the database, in backend order.
GlueSvcGetTables(in) ==
  IF backend.fault THEN
    [TableList |-> <<>>,
     err |-> <<ErrNode("*smithy.OperationError", 1, "operation error"),
               ErrNode("*types.AccessDeniedException", 2, "access denied")>>]
  ELSE
    [TableList |-> SelectSeq(backend.tables, LAMBDA t : t.db = in.DatabaseName.val),
     err |-> NoErr]

(***************************************************************************)
(* package catalog: GlueCatalog                                            *)
(***************************************************************************)
Glue == "glue"

CatalogTable(id, loc, ct) == [Identifier |-> id, Location |-> loc, CatalogType |-> ct]
ZeroCatalogTable == CatalogTable(<<>>, "", "")

GlueTableIdentifier(database, table) == <<database, table>>
GlueDatabaseIdentifier(database) == <<database>>

\* Faulty variant: the arity test written as len(identifier) < 2.
identifierToGlueTableAtLeastTwo(identifier) ==
  IF Len(identifier) < 2
  THEN [database |-> "", table |-> "",
        err |-> ErrorsNew("*errors.errorString", "invalid identifier, missing database name")]
  ELSE [database |-> identifier[1], table |-> identifier[2], err |-> NoErr]

identifierToGlueTable(identifier) ==
  IF Len(identifier) # 2
  THEN [database |-> "", table |-> "",
        err |-> ErrorsNew("*errors.errorString", "invalid identifier, missing database name")]
  ELSE [database |-> identifier[1], table |-> identifier[2], err |-> NoErr]

identifierToGlueDatabase(identifier) ==
  IF Len(identifier) # 1
  THEN [database |-> "",
        err |-> ErrorsNew("*errors.errorString", "invalid identifier, missing database name")]
  ELSE [database |-> identifier[1], err |-> NoErr]

\* The result of one catalog call: what it returned and the backend calls it issued.
CallResult(op, id, calls, berr, blist, out, list, err) ==
  [op |-> op, ident |-> id, calls |-> calls, berr |-> berr, blist |-> blist,
   out |-> out, list |-> list, err |-> err]

\* Faulty variant: a record without table_type is taken for an iceberg table.
NotIcebergUnlessUntyped(parameters) ==
  "table_type" \in DOMAIN parameters /\ parameters["table_type"] # "ICEBERG"

\* tblRes.Table.Parameters["table_type"] != "ICEBERG"
NotIceberg(parameters) == MapGet(parameters, "table_type") # "ICEBERG"

\* Faulty variant: Location read from the "location" parameter.
GetTableOutputFromLocationKey(identifier, parameters) ==
  CatalogTable(identifier, MapGet(parameters, "location"), Glue)

\* The CatalogTable GetTable returns on success.
GetTableOutput(identifier, parameters) ==
  CatalogTable(identifier, MapGet(parameters, "metadata_location"), Glue)

GetTableResult(identifier, wrapped) ==
  LET r == identifierToGlueTable(identifier) IN
  IF r.err # NoErr
  THEN CallResult("GetTable", identifier, <<>>, NoErr, <<>>, ZeroCatalogTable, <<>>, r.err)
  ELSE
    LET in == [op |-> "GetTable", DatabaseName |-> AwsString(r.database),
               Name |-> AwsString(r.table)]
        tblRes == GlueSvcGetTable(in, wrapped)
        target == ErrNode("*types.EntityNotFoundException", FreshAddr(tblRes.err), "")
    IN
    IF tblRes.err # NoErr THEN
      IF ErrorsIs(tblRes.err, target)
      THEN CallResult("GetTable", identifier, <<in>>, tblRes.err, <<>>,
                      ZeroCatalogTable, <<>>, ErrNoSuchTable)
      ELSE CallResult("GetTable", identifier, <<in>>, tblRes.err, <<>>,
                      ZeroCatalogTable, <<>>, Errorf("failed to get table", tblRes.err))
    ELSE IF NotIceberg(tblRes.Table.Parameters)
      THEN CallResult("GetTable", identifier, <<in>>, NoErr, <<tblRes.Table>>,
                      ZeroCatalogTable, <<>>,
                      ErrorsNew("*errors.errorString", "table is not an iceberg table"))
      ELSE CallResult("GetTable", identifier, <<in>>, NoErr, <<tblRes.Table>>,
                      GetTableOutput(identifier, tblRes.Table.Parameters),
                      <<>>, NoErr)

\* Faulty variant: the loop keeps every entry.
SkipNothing(parameters) == FALSE

\* The filter of the ListTables loop: tbl.Parameters["table_type"] != "ICEBERG"
SkipTable(parameters) == MapGet(parameters, "table_type") # "ICEBERG"

RECURSIVE IcebergTables(_, _)
\* The loop of ListTables over tblsRes.TableList.
IcebergTables(tableList, database) ==
  IF tableList = <<>> THEN <<>>
  ELSE LET tbl == Head(tableList) IN
       IF SkipTable(tbl.Parameters)
       THEN IcebergTables(Tail(tableList), database)
       ELSE <<CatalogTable(GlueTableIdentifier(database, AwsToString(tbl.Name)),
                           MapGet(tbl.Parameters, "metadata_location"),
                           Glue)>>
            \o IcebergTables(Tail(tableList), database)

ListTablesResult(identifier) ==
  LET r == identifierToGlueDatabase(identifier) IN
  IF r.err # NoErr
  THEN CallResult("ListTables", identifier, <<>>, NoErr, <<>>, ZeroCatalogTable, <<>>, r.err)
  ELSE
    LET in == [op |-> "GetTables", DatabaseName |-> AwsString(r.database),
               Name |-> NilString]
        tblsRes == GlueSvcGetTables(in)
    IN
    IF tblsRes.err # NoErr
    THEN CallResult("ListTables", identifier, <<in>>, tblsRes.err, <<>>, ZeroCatalogTable,
                    <<>>, Errorf("failed to list tables in namespace", tblsRes.err))
    ELSE CallResult("ListTables", identifier, <<in>>, NoErr, tblsRes.TableList,
                    ZeroCatalogTable,
                    IcebergTables(tblsRes.TableList, r.database), NoErr)

\* Identifiers callers pass: every sequence of names up to MaxIdentLen.
IdentNames == {"db1", "t1"}
Identifiers == UNION {[1..n -> IdentNames] : n \in 0..MaxIdentLen}

NoCall == CallResult("none", <<>>, <<>>, NoErr, <<>>, ZeroCatalogTable, <<>>, NoErr)

InitGlue ==
  /\ backend = [tables |-> <<>>, fault |-> FALSE]
  /\ call = NoCall

\* The backend gains a record (unique per database and name).
BackendCreateTable ==
  /\ Len(backend.tables) < MaxBackendTables
  /\ \E db \in Databases, n \in NamePtrs, p \in ParameterMaps :
        /\ ~HasRecord(db, n)
        /\ backend' = [backend EXCEPT
              !.tables = Append(@, [db |-> db, Name |-> n, Parameters |-> p])]
  /\ UNCHANGED <<call, nameVars, tableVars, builderVars>>

\* The backend starts or stops failing every request.
BackendToggleFault ==
  /\ backend' = [backend EXCEPT !.fault = ~@]
  /\ UNCHANGED <<call, nameVars, tableVars, builderVars>>

GetTable ==
  /\ \E identifier \in Identifiers, wrapped \in BOOLEAN :
        call' = GetTableResult(identifier, wrapped)
  /\ UNCHANGED <<backend, nameVars, tableVars, builderVars>>

ListTables ==
  /\ \E identifier \in Identifiers :
        call' = ListTablesResult(identifier)
  /\ UNCHANGED <<backend, nameVars, tableVars, builderVars>>

NextGlue == BackendCreateTable \/ BackendToggleFault \/ GetTable \/ ListTables

(***************************************************************************)
(* package table: GenerateMetadataFileName                                 *)
(* File names are sequences of byte codes: '0' is 48, '-' is 45, 'a' is 97.*)
(***************************************************************************)
VersionSpread == 1
MaxExp == 6
MaxSeed == 1
PadWidth == 5

RECURSIVE Pow10(_)
Pow10(e) == IF e = 0 THEN 1 ELSE 10 * Pow10(e - 1)

\* The versions tried: around zero and around every power of ten up to 10^MaxExp.
Versions ==
  (-VersionSpread..VersionSpread)
    \cup UNION {(Pow10(e) - VersionSpread)..(Pow10(e) + VersionSpread) : e \in 1..MaxExp}

\* The bytes the random source hands to uuid.New(): all sixteen equal to one of these.
UUIDSeeds == {(k * 171) % 256 : k \in 0..MaxSeed}

RECURSIVE Itoa(_)
\* The decimal digits of a non-negative integer, most significant first.
Itoa(n) == IF n < 10 THEN <<48 + n>> ELSE Itoa(n \div 10) \o <<48 + (n % 10)>>

RECURSIVE PadLeft(_, _, _)
PadLeft(s, width, c) == IF Len(s) >= width THEN s ELSE PadLeft(<<c>> \o s, width, c)

\* Faulty variant: %d in place of %05d.
FormatDUnpadded(v) ==
  IF v < 0 THEN <<45>> \o Itoa(-v) ELSE Itoa(v)

\* fmt's %05d: zero padding to a minimum width of five, the sign included.
FormatD05(v) ==
  IF v < 0 THEN <<45>> \o PadLeft(Itoa(-v), PadWidth - 1, 48)
  ELSE PadLeft(Itoa(v), PadWidth, 48)

\* uuid.New(): sixteen random bytes with the version (4) and variant (10) bits set.
NewUUID(seed) ==
  [i \in 1..16 |-> IF i = 7 THEN (seed % 16) + 64
                   ELSE IF i = 9 THEN (seed % 64) + 128
                   ELSE seed]

HexDigit(d) == IF d < 10 THEN 48 + d ELSE 97 + (d - 10)
HexByte(b) == <<HexDigit(b \div 16), HexDigit(b % 16)>>

RECURSIVE HexBytes(_, _, _)
HexBytes(u, from, to) ==
  IF from > to THEN <<>> ELSE HexByte(u[from]) \o HexBytes(u, from + 1, to)

\* UUID.String(): xxxxxxxx-xxxx-xxxx-xxxx-xxxxxxxxxxxx
UUIDString(u) ==
  HexBytes(u, 1, 4) \o <<45>> \o HexBytes(u, 5, 6) \o <<45>> \o HexBytes(u, 7, 8)
    \o <<45>> \o HexBytes(u, 9, 10) \o <<45>> \o HexBytes(u, 11, 16)

\* ".metadata.json"
MetadataJsonSuffix == <<46, 109, 101, 116, 97, 100, 97, 116, 97, 46, 106, 115, 111, 110>>

GenResult(v, name, err) == [called |-> TRUE, version |-> v, name |-> name, err |-> err]

\* Faulty variant: the guard written as newVersion <= 0.
GenerateMetadataFileNameRejectsZero(newVersion, seed) ==
  IF newVersion <= 0
  THEN GenResult(newVersion, <<>>, ErrorsNew("*errors.errorString", "invalid table version"))
  ELSE GenResult(newVersion,
                 FormatD05(newVersion) \o <<45>> \o UUIDString(NewUUID(seed))
                   \o MetadataJsonSuffix,
                 NoErr)

GenerateMetadataFileName(newVersion, seed) ==
  IF newVersion < 0
  THEN GenResult(newVersion, <<>>, ErrorsNew("*errors.errorString", "invalid table version"))
  ELSE GenResult(newVersion,
                 FormatD05(newVersion) \o <<45>> \o UUIDString(NewUUID(seed))
                   \o MetadataJsonSuffix,
                 NoErr)

NoGen == [called |-> FALSE, version |-> 0, name |-> <<>>, err |-> NoErr]

InitName ==
  /\ genPrev = NoGen
  /\ genLast = NoGen

\* One call of GenerateMetadataFileName; the previous result is kept beside it.
GenerateName ==
  /\ \E v \in Versions, seed \in UUIDSeeds :
        genLast' = GenerateMetadataFileName(v, seed)
  /\ genPrev' = genLast
  /\ UNCHANGED <<glueVars, tableVars, builderVars>>

NextName == GenerateName

(***************************************************************************)
(* package table: Table, Equals, New                                       *)
(***************************************************************************)
\* A []string: the address of its backing array (0 for the nil slice) and its elements.
Slice(ptr, elems) == [ptr |-> ptr, elems |-> elems]
NilSlice == Slice(0, <<>>)

\* A Metadata interface value: the dynamic type ("nil" for the nil interface),
\* the address of the struct it points to, and the document held there.
Meta(type, addr, doc) == [type |-> type, addr |-> addr, doc |-> doc]
NilMeta == Meta("nil", 0, "")

\* slices.Equal: equal lengths and pairwise equal elements; the backing arrays
\* are not compared.
SlicesEqual(s1, s2) ==
  IF Len(s1.elems) # Len(s2.elems) THEN FALSE
  ELSE \A i \in 1..Len(s1.elems) : s1.elems[i] = s2.elems[i]

\* reflect.DeepEqual on two Metadata interface values: both nil, or the same
\* dynamic type and pointers to deeply equal structs.
ReflectDeepEqual(x, y) ==
  IF x.type = "nil" \/ y.type = "nil" THEN x.type = y.type
  ELSE /\ x.type = y.type
       /\ (x.addr = y.addr \/ x.doc = y.doc)

TableValue(ident, meta, location, fs) ==
  [identifier |-> ident, metadata |-> meta, metadataLocation |-> location, fs |-> fs]

New(ident, meta, location, fs) == TableValue(ident, meta, location, fs)

\* Faulty variant: metadataLocation left out of the comparison.
EqualsIgnoringLocation(t, other) ==
  /\ SlicesEqual(t.identifier, other.identifier)
  /\ ReflectDeepEqual(t.metadata, other.metadata)

Equals(t, other) ==
  /\ SlicesEqual(t.identifier, other.identifier)
  /\ t.metadataLocation = other.metadataLocation
  /\ ReflectDeepEqual(t.metadata, other.metadata)

\* The values Equals is tried on.
EqIdents ==
  {NilSlice, Slice(1, <<>>), Slice(1, <<"db1", "t1">>), Slice(2, <<"db1", "t1">>),
   Slice(3, <<"db1", "t2">>), Slice(4, <<"db1">>)}
EqMetas ==
  {NilMeta, Meta("*MetadataV2", 1, "docA"), Meta("*MetadataV2", 2, "docA"),
   Meta("*MetadataV2", 3, "docB"), Meta("*MetadataV1", 4, "docA")}
EqLocations == {"s3://b/m1.json", "s3://b/m2.json"}
EqHandles == {"fsA", "fsB"}
NoEq == [called |-> FALSE, t |-> New(NilSlice, NilMeta, "", ""),
         other |-> New(NilSlice, NilMeta, "", ""), result |-> FALSE]

\* The caller makes the receiver with New.
NewReceiver ==
  /\ \E i \in EqIdents, m \in EqMetas, l \in EqLocations, f \in EqHandles :
        eq' = [eq EXCEPT !.called = FALSE, !.result = FALSE, !.t = New(i, m, l, f)]
  /\ UNCHANGED <<nfl, glueVars, nameVars, builderVars>>

\* The caller makes the argument with New.
NewOther ==
  /\ \E i \in EqIdents, m \in EqMetas, l \in EqLocations, f \in EqHandles :
        eq' = [eq EXCEPT !.called = FALSE, !.result = FALSE, !.other = New(i, m, l, f)]
  /\ UNCHANGED <<nfl, glueVars, nameVars, builderVars>>

\* One call eq.t.Equals(eq.other).
CallEquals ==
  /\ eq' = [eq EXCEPT !.called = TRUE, !.result = Equals(eq.t, eq.other)]
  /\ UNCHANGED <<nfl, glueVars, nameVars, builderVars>>

NextEquals == NewReceiver \/ NewOther \/ CallEquals

(***************************************************************************)
(* package table: NewFromLocation                                          *)
(***************************************************************************)
\* What a storage handle holds at a location.
FileStates == {"missing", "v1:docA", "v2:docA", "garbage"}
LoadLocations == {"s3://b/m1.json", "s3://b/m2.json"}
LoadIdents == {Slice(1, <<"db1", "t1">>), NilSlice}

\* A storage handle: whether it also implements io.ReadFileIO, and its files.
StorageHandles ==
  {[readFileIO |-> r, files |-> f] : r \in BOOLEAN, f \in [LoadLocations -> FileStates]}

IOEvent(op, ok) == [op |-> op, ok |-> ok]

NotExistErr == <<ErrNode("*fs.PathError", 1, "file does not exist")>>

\* rf.ReadFile(name)
FsReadFile(fsys, name) ==
  IF fsys.files[name] = "missing"
  THEN [data |-> "", err |-> NotExistErr]
  ELSE [data |-> fsys.files[name], err |-> NoErr]

\* fsys.Open(name): an open stream over the file's bytes.
FsOpen(fsys, name) ==
  IF fsys.files[name] = "missing"
  THEN [file |-> "", err |-> NotExistErr]
  ELSE [file |-> fsys.files[name], err |-> NoErr]

\* ParseMetadataBytes: a Metadata value of the document's format version, or
\* a malformed-metadata error.
ParseMetadataBytes(data) ==
  IF data = "v1:docA" THEN [meta |-> Meta("*MetadataV1", 1, "docA"), err |-> NoErr]
  ELSE IF data = "v2:docA" THEN [meta |-> Meta("*MetadataV2", 1, "docA"), err |-> NoErr]
  ELSE [meta |-> NilMeta,
        err |-> <<ErrNode("*json.SyntaxError", 1, "malformed metadata")>>]

\* ParseMetadata: the same over the bytes read from a stream.
ParseMetadata(r) == ParseMetadataBytes(r)

\* A *Table.
NilTable == [nil |-> TRUE, val |-> New(NilSlice, NilMeta, "", "")]
TablePtr(t) == [nil |-> FALSE, val |-> t]

NFLResult(table, err, log) == [table |-> table, err |-> err, log |-> log]

\* Faulty variant: f.Close() called before the final return only, not deferred.
NewFromLocationLeakOnParseError(ident, metalocation, fsys) ==
  IF fsys.readFileIO THEN
    LET rf == FsReadFile(fsys, metalocation) IN
    IF rf.err # NoErr
    THEN NFLResult(NilTable, rf.err, <<IOEvent("ReadFile", FALSE)>>)
    ELSE LET p == ParseMetadataBytes(rf.data) IN
         IF p.err # NoErr
         THEN NFLResult(NilTable, p.err,
                        <<IOEvent("ReadFile", TRUE), IOEvent("ParseMetadataBytes", FALSE)>>)
         ELSE NFLResult(TablePtr(New(ident, p.meta, metalocation, fsys)), NoErr,
                        <<IOEvent("ReadFile", TRUE), IOEvent("ParseMetadataBytes", TRUE)>>)
  ELSE
    LET f == FsOpen(fsys, metalocation) IN
    IF f.err # NoErr
    THEN NFLResult(NilTable, f.err, <<IOEvent("Open", FALSE)>>)
    ELSE LET p == ParseMetadata(f.file) IN
         IF p.err # NoErr
         THEN NFLResult(NilTable, p.err,
                        <<IOEvent("Open", TRUE), IOEvent("ParseMetadata", FALSE)>>)
         ELSE NFLResult(TablePtr(New(ident, p.meta, metalocation, fsys)), NoErr,
                        <<IOEvent("Open", TRUE), IOEvent("ParseMetadata", TRUE),
                          IOEvent("Close", TRUE)>>)

\* NewFromLocation with the storage calls it makes, in order.  The deferred
\* f.Close() runs after the return value is set, on every return that follows
\* the successful Open.
NewFromLocation(ident, metalocation, fsys) ==
  IF fsys.readFileIO THEN
    LET rf == FsReadFile(fsys, metalocation) IN
    IF rf.err # NoErr
    THEN NFLResult(NilTable, rf.err, <<IOEvent("ReadFile", FALSE)>>)
    ELSE LET p == ParseMetadataBytes(rf.data) IN
         IF p.err # NoErr
         THEN NFLResult(NilTable, p.err,
                        <<IOEvent("ReadFile", TRUE), IOEvent("ParseMetadataBytes", FALSE)>>)
         ELSE NFLResult(TablePtr(New(ident, p.meta, metalocation, fsys)), NoErr,
                        <<IOEvent("ReadFile", TRUE), IOEvent("ParseMetadataBytes", TRUE)>>)
  ELSE
    LET f == FsOpen(fsys, metalocation) IN
    IF f.err # NoErr
    THEN NFLResult(NilTable, f.err, <<IOEvent("Open", FALSE)>>)
    ELSE LET deferred == <<IOEvent("Close", TRUE)>>
             p == ParseMetadata(f.file)
         IN
         IF p.err # NoErr
         THEN NFLResult(NilTable, p.err,
                        <<IOEvent("Open", TRUE), IOEvent("ParseMetadata", FALSE)>> \o deferred)
         ELSE NFLResult(TablePtr(New(ident, p.meta, metalocation, fsys)), NoErr,
                        <<IOEvent("Open", TRUE), IOEvent("ParseMetadata", TRUE)>> \o deferred)

NoLoad == [called |-> FALSE, ident |-> NilSlice, metalocation |-> "",
           fsys |-> [readFileIO |-> FALSE, files |-> [l \in LoadLocations |-> "missing"]],
           ret |-> NFLResult(NilTable, NoErr, <<>>)]

\* One call of NewFromLocation.
CallNewFromLocation ==
  /\ \E ident \in LoadIdents, metalocation \in LoadLocations, fsys \in StorageHandles :
        nfl' = [called |-> TRUE, ident |-> ident, metalocation |-> metalocation,
                fsys |-> fsys, ret |-> NewFromLocation(ident, metalocation, fsys)]
  /\ UNCHANGED <<eq, glueVars, nameVars, builderVars>>

NextLoad == CallNewFromLocation

InitTable ==
  /\ eq = NoEq
  /\ nfl = NoLoad

(***************************************************************************)
(* package table: TableBuilder                                             *)
(* heap holds the iceberg.Properties maps; a map value is the address      *)
(* (index) of its entry, 0 for the nil map.  Whoever holds the same        *)
(* address sees the same map.                                              *)
(***************************************************************************)
MaxObjects == 3

BuilderIdents == {Slice(1, <<"db1", "t1">>), Slice(2, <<"db1", "t2">>)}
BuilderSchemas == {"schemaA"}
BuilderLocations == {"s3://b/t", "bogus://b/t"}
BuilderMetadataLocations == {"metadata/00000.json", "metadata/00001.json"}
PartitionSpecs == {"specBad"}
SortOrders == {"sortA"}
PropertyContents == {[k \in {"owner"} |-> "a"], [k \in {"owner"} |-> "b"]}
BuildSeeds == {0, 171}

NilBuilder ==
  [nil |-> TRUE, ident |-> NilSlice, schema |-> "", partitionSpec |-> "", sortOrder |-> "",
   location |-> "", metadataLocation |-> "", properties |-> 0]

\* NewMetadataV2: a new V2 Metadata value holding the inputs (the properties
\* map by reference), or an error for an incompatible partition spec.
NewMetadataV2(schema, partitionSpec, sortOrder, location, tableUUID, properties) ==
  IF partitionSpec = "specBad"
  THEN [meta |-> NilMeta, err |-> <<ErrNode("*errors.errorString", 1, "invalid partition spec")>>]
  ELSE [meta |-> Meta("*MetadataV2", 1,
                      [uuid |-> tableUUID, schema |-> schema, partitionSpec |-> partitionSpec,
                       sortOrder |-> sortOrder, location |-> location, props |-> properties]),
        err |-> NoErr]

\* io.LoadFS: a storage handle for the location's scheme, or an error.
LoadFS(location) ==
  IF location = "s3://b/t" THEN [fs |-> "s3fs", err |-> NoErr]
  ELSE [fs |-> "", err |-> <<ErrNode("*errors.errorString", 1, "IO for file not implemented")>>]

\* The tables Build has returned that are watched: the first and the latest.
Returned(seq, t) == IF Len(seq) < 2 THEN Append(seq, t) ELSE <<seq[1], t>>

SetOp == [op |-> "set", ok |-> TRUE]

InitBuilder ==
  /\ heap = <<>>
  /\ builder = NilBuilder
  /\ given = [ident |-> NilSlice, metadataLocation |-> ""]
  /\ built = <<>>
  /\ bOp = [op |-> "none", ok |-> TRUE]

\* NewTableBuilder(ident, schema, location, metadataLocation); properties is a
\* fresh empty map.
NewTableBuilder ==
  /\ builder.nil
  /\ \E ident \in BuilderIdents, schema \in BuilderSchemas,
        location \in BuilderLocations, metadataLocation \in BuilderMetadataLocations :
        /\ heap' = Append(heap, <<>>)
        /\ builder' = [nil |-> FALSE, ident |-> ident, schema |-> schema,
                       partitionSpec |-> "", sortOrder |-> "", location |-> location,
                       metadataLocation |-> metadataLocation,
                       properties |-> Len(heap) + 1]
        /\ given' = [ident |-> ident, metadataLocation |-> metadataLocation]
  /\ bOp' = SetOp
  /\ UNCHANGED <<built, glueVars, nameVars, tableVars>>

WithPartitionSpec ==
  /\ ~builder.nil
  /\ \E spec \in PartitionSpecs \cup {""} :
        builder' = [builder EXCEPT !.partitionSpec = spec]
  /\ bOp' = SetOp
  /\ UNCHANGED <<heap, given, built, glueVars, nameVars, tableVars>>

WithSortOrder ==
  /\ ~builder.nil
  /\ \E sortOrder \in SortOrders \cup {""} :
        builder' = [builder EXCEPT !.sortOrder = sortOrder]
  /\ bOp' = SetOp
  /\ UNCHANGED <<heap, given, built, glueVars, nameVars, tableVars>>

\* WithProperties(properties): the caller passes nil, a map it already holds,
\* or a map it has just made.
WithProperties ==
  /\ ~builder.nil
  /\ \/ \E properties \in 0..Len(heap) :
           /\ builder' = [builder EXCEPT !.properties = properties]
           /\ heap' = heap
     \/ /\ Len(heap) < MaxObjects
        /\ \E content \in PropertyContents :
              /\ heap' = Append(heap, content)
              /\ builder' = [builder EXCEPT !.properties = Len(heap) + 1]
  /\ bOp' = SetOp
  /\ UNCHANGED <<given, built, glueVars, nameVars, tableVars>>

\* Faulty variant: the Table's metadataLocation taken from b.location.
BuildWithLocationAsMetadataLocation ==
  /\ ~builder.nil
  /\ \E seed \in BuildSeeds :
        LET tableUUID == NewUUID(seed)
            m == NewMetadataV2(builder.schema, builder.partitionSpec, builder.sortOrder,
                               builder.location, tableUUID, builder.properties)
            fs == LoadFS(builder.location)
        IN  IF m.err # NoErr \/ fs.err # NoErr
            THEN /\ built' = built
                 /\ bOp' = [op |-> "Build", ok |-> FALSE]
            ELSE /\ built' = Returned(built, TableValue(builder.ident, m.meta,
                                                        builder.location, fs.fs))
                 /\ bOp' = [op |-> "Build", ok |-> TRUE]
  /\ UNCHANGED <<heap, builder, given, glueVars, nameVars, tableVars>>

\* Build(): nil and an error when NewMetadataV2 or LoadFS fails, else a new Table.
Build ==
  /\ ~builder.nil
  /\ \E seed \in BuildSeeds :
        LET tableUUID == NewUUID(seed)
            m == NewMetadataV2(builder.schema, builder.partitionSpec, builder.sortOrder,
                               builder.location, tableUUID, builder.properties)
            fs == LoadFS(builder.location)
        IN  IF m.err # NoErr \/ fs.err # NoErr
            THEN /\ built' = built
                 /\ bOp' = [op |-> "Build", ok |-> FALSE]
            ELSE /\ built' = Returned(built, TableValue(builder.ident, m.meta,
                                                        builder.metadataLocation, fs.fs))
                 /\ bOp' = [op |-> "Build", ok |-> TRUE]
  /\ UNCHANGED <<heap, builder, given, glueVars, nameVars, tableVars>>

NextBuilder ==
  NewTableBuilder \/ WithPartitionSpec \/ WithSortOrder \/ WithProperties \/ Build

(***************************************************************************)
(* Specifications: one per component, all from the same initial state.     *)
(***************************************************************************)
Init == InitGlue /\ InitName /\ InitTable /\ InitBuilder

SpecGlue == Init /\ [][NextGlue]_vars
SpecName == Init /\ [][NextName]_vars
SpecEquals == Init /\ [][NextEquals]_vars
SpecLoad == Init /\ [][NextLoad]_vars
SpecBuilder == Init /\ [][NextBuilder]_vars

(***************************************************************************)
(* Properties of GlueCatalog (SpecGlue).                                   *)
(***************************************************************************)
IsEntityNotFound(chain) ==
  \E i \in 1..Len(chain) : chain[i].type = "*types.EntityNotFoundException"

\* The backend call of the last GetTable succeeded and returned a record.
GetTableGotRecord ==
  /\ call.op = "GetTable"
  /\ Len(call.ident) = 2
  /\ Len(call.calls) = 1
  /\ call.berr = NoErr
  /\ Len(call.blist) = 1

MarkedIceberg(parameters) ==
  "table_type" \in DOMAIN parameters /\ parameters["table_type"] = "ICEBERG"

LocationOf(parameters) ==
  IF "metadata_location" \in DOMAIN parameters THEN parameters["metadata_location"] ELSE ""

\* C1: for a 2-component identifier, when the backend GetTable call fails with
\* an entity-not-found error, GetTable returns the ErrNoSuchTable sentinel
\* itself, so that an identity check on the returned error succeeds.
C1_NotFoundReturnsSentinel ==
  (call.op = "GetTable" /\ Len(call.ident) = 2 /\ IsEntityNotFound(call.berr))
    => call.err = ErrNoSuchTable

\* C2: when the backend GetTable call succeeds but table_type is not the
\* literal "ICEBERG" (or is absent), GetTable returns the not-an-iceberg-table
\* error and the zero CatalogTable.
C2_NonIcebergRejected ==
  (GetTableGotRecord /\ ~MarkedIceberg(call.blist[1].Parameters))
    => /\ Len(call.err) = 1
       /\ call.err[1].msg = "table is not an iceberg table"
       /\ call.out = [Identifier |-> <<>>, Location |-> "", CatalogType |-> ""]

C2_Witness ==
  /\ GetTableGotRecord
  /\ "table_type" \notin DOMAIN call.blist[1].Parameters
  /\ "metadata_location" \in DOMAIN call.blist[1].Parameters
  /\ call.out.Location = ""
  /\ call.err # NoErr

\* C3: arity is checked before any I/O.  GetTable with an identifier whose
\* length is not 2 and ListTables with one whose length is not 1 return an
\* invalid-identifier error having issued no backend call; with the right
\* arity each issues exactly one backend call carrying identifier[0] as the
\* database and, for GetTable, identifier[1] as the table name.
C3_ArityBeforeIO ==
  /\ call.op = "GetTable" =>
       IF Len(call.ident) # 2
       THEN /\ call.calls = <<>>
            /\ Len(call.err) = 1
            /\ call.err[1].msg = "invalid identifier, missing database name"
       ELSE /\ Len(call.calls) = 1
            /\ call.calls[1].op = "GetTable"
            /\ call.calls[1].DatabaseName = [nil |-> FALSE, val |-> call.ident[1]]
            /\ call.calls[1].Name = [nil |-> FALSE, val |-> call.ident[2]]
  /\ call.op = "ListTables" =>
       IF Len(call.ident) # 1
       THEN /\ call.calls = <<>>
            /\ Len(call.err) = 1
            /\ call.err[1].msg = "invalid identifier, missing database name"
       ELSE /\ Len(call.calls) = 1
            /\ call.calls[1].op = "GetTables"
            /\ call.calls[1].DatabaseName = [nil |-> FALSE, val |-> call.ident[1]]

C3_Witness ==
  /\ call.op = "GetTable"
  /\ Len(call.ident) = 3
  /\ call.calls = <<>>
  /\ call.err # NoErr
  /\ Len(backend.tables) > 0

\* C4: when GetTable succeeds (2 components, backend call succeeds,
\* table_type = "ICEBERG") the returned CatalogTable has the identifier passed
\* in, the record's metadata_location as Location and Glue as CatalogType, and
\* the error is nil.
C4_GetTableSuccess ==
  (GetTableGotRecord /\ MarkedIceberg(call.blist[1].Parameters))
    => /\ call.err = NoErr
       /\ call.out.Identifier = call.ident
       /\ call.out.Location = LocationOf(call.blist[1].Parameters)
       /\ call.out.CatalogType = "glue"

C4_Witness ==
  /\ GetTableGotRecord
  /\ MarkedIceberg(call.blist[1].Parameters)
  /\ call.out.Location = "s3://b/m1.json"
  /\ call.out.Identifier = <<"db1", "t1">>

\* C5: for a 1-component identifier [namespace] and a backend list of N
\* entries of which M have table_type = "ICEBERG", ListTables returns no error
\* and exactly M CatalogTables, one per matching entry (in list order), each
\* with Identifier = [namespace, entry name], Location = the entry's
\* metadata_location and CatalogType = Glue.
C5_ListTablesFilters ==
  (call.op = "ListTables" /\ Len(call.ident) = 1 /\ call.berr = NoErr)
    => LET N == Len(call.blist)
           matching == {i \in 1..N : MarkedIceberg(call.blist[i].Parameters)}
           M == Cardinality(matching)
       IN  /\ call.err = NoErr
           /\ Len(call.list) = M
           /\ \E f \in [1..M -> matching] :
                 /\ \A a, b \in 1..M : a < b => f[a] < f[b]
                 /\ \A k \in 1..M :
                       /\ call.list[k].Identifier =
                            <<call.ident[1],
                              IF call.blist[f[k]].Name.nil THEN ""
                              ELSE call.blist[f[k]].Name.val>>
                       /\ call.list[k].Location = LocationOf(call.blist[f[k]].Parameters)
                       /\ call.list[k].CatalogType = "glue"

C5_Witness ==
  /\ call.op = "ListTables"
  /\ Len(call.ident) = 1
  /\ call.berr = NoErr
  /\ Len(call.blist) = 2
  /\ ~MarkedIceberg(call.blist[1].Parameters)
  /\ MarkedIceberg(call.blist[2].Parameters)
  /\ Len(call.list) = 1

(***************************************************************************)
(* Properties of GenerateMetadataFileName (SpecName).                      *)
(***************************************************************************)
IsDigit(c) == c >= 48 /\ c <= 57
IsHex(c) == IsDigit(c) \/ (c >= 97 /\ c <= 102)

RECURSIVE Atoi(_)
\* The number a string of decimal digits denotes.
Atoi(s) == IF s = <<>> THEN 0 ELSE 10 * Atoi(SubSeq(s, 1, Len(s) - 1)) + (s[Len(s)] - 48)

IsUUIDText(s) ==
  /\ Len(s) = 36
  /\ \A i \in 1..36 : IF i \in {9, 14, 19, 24} THEN s[i] = 45 ELSE IsHex(s[i])

RECURSIVE StrLess(_, _)
\* a < b for Go strings: byte-wise lexicographic order.
StrLess(a, b) ==
  IF b = <<>> THEN FALSE
  ELSE IF a = <<>> THEN TRUE
  ELSE IF a[1] # b[1] THEN a[1] < b[1]
  ELSE StrLess(Tail(a), Tail(b))

BothGenerated ==
  /\ genPrev.called /\ genLast.called
  /\ genPrev.version >= 0 /\ genLast.version >= 0

SameIdentifier(a, b) ==
  /\ Len(a.identifier.elems) = Len(b.identifier.elems)
  /\ \A i \in 1..Len(a.identifier.elems) : a.identifier.elems[i] = b.identifier.elems[i]

DeepEqualMetadata(a, b) ==
  \/ a.metadata.type = "nil" /\ b.metadata.type = "nil"
  \/ /\ a.metadata.type # "nil" /\ b.metadata.type # "nil"
     /\ a.metadata.type = b.metadata.type
     /\ a.metadata.doc = b.metadata.doc

\* C6: Table.Equals(other) is true if and only if the two tables have
\* component-wise identical identifiers, identical metadataLocation strings
\* and deep-equal Metadata; the storage handle takes no part.
C6_EqualsIff ==
  eq.called =>
    (eq.result <=> /\ SameIdentifier(eq.t, eq.other)
                   /\ eq.t.metadataLocation = eq.other.metadataLocation
                   /\ DeepEqualMetadata(eq.t, eq.other))

C6_Witness ==
  /\ eq.called /\ eq.result
  /\ eq.t.fs # eq.other.fs
  /\ eq.t.identifier.ptr # eq.other.identifier.ptr
  /\ eq.t.metadata.addr # eq.other.metadata.addr
  /\ Len(eq.t.identifier.elems) = 2

(***************************************************************************)
(* Properties of NewFromLocation (SpecLoad).                               *)
(***************************************************************************)
CountOp(log, op) == Cardinality({i \in 1..Len(log) : log[i].op = op})

\* C8: when the storage handle supports ReadFile, Open is never called;
\* otherwise, after a successful Open the stream has been closed exactly once
\* when NewFromLocation returns, whether parsing succeeded or failed; and when
\* Open, ReadFile or parsing fails, that error is returned with a nil Table.
C8_StreamsReleased ==
  nfl.called =>
    LET log == nfl.ret.log
        opened == \E i \in 1..Len(log) : log[i].op = "Open" /\ log[i].ok
        failed == \E i \in 1..Len(log) : ~log[i].ok
    IN  /\ nfl.fsys.readFileIO => CountOp(log, "Open") = 0 /\ CountOp(log, "ReadFile") = 1
        /\ (~nfl.fsys.readFileIO /\ opened)
             => /\ CountOp(log, "Close") = 1
                /\ log[Len(log)].op = "Close"
        /\ failed => nfl.ret.err # NoErr /\ nfl.ret.table.nil
        /\ ~failed => nfl.ret.err = NoErr /\ ~nfl.ret.table.nil

C8_Witness ==
  /\ nfl.called
  /\ ~nfl.fsys.readFileIO
  /\ nfl.fsys.files[nfl.metalocation] = "garbage"
  /\ nfl.ret.table.nil
  /\ CountOp(nfl.ret.log, "Close") = 1

(***************************************************************************)
(* Properties of TableBuilder (SpecBuilder).                               *)
(***************************************************************************)
\* What a returned Table shows to its holder: the identifier's elements, the
\* metadata location and the metadata with its properties map read through.
TableView(t, h) ==
  [identifier |-> t.identifier.elems,
   metadataLocation |-> t.metadataLocation,
   metadata |-> [type |-> t.metadata.type,
                 uuid |-> t.metadata.doc.uuid,
                 schema |-> t.metadata.doc.schema,
                 partitionSpec |-> t.metadata.doc.partitionSpec,
                 sortOrder |-> t.metadata.doc.sortOrder,
                 location |-> t.metadata.doc.location,
                 props |-> IF t.metadata.doc.props = 0 THEN <<>>
                           ELSE h[t.metadata.doc.props]]]

\* C10: Build() leaves every builder field unchanged; the returned Table's
\* identifier and metadataLocation are those given to NewTableBuilder; and
\* once a Table is returned, no later WithPartitionSpec / WithSortOrder /
\* WithProperties / Build call on the builder changes that Table's identifier,
\* metadataLocation or metadata.
C10_BuiltTableImmutable ==
  [][ /\ bOp'.op = "Build" => (builder' = builder /\ heap' = heap)
      /\ (bOp'.op = "Build" /\ bOp'.ok) =>
            /\ Len(built') >= 1
            /\ built'[Len(built')].identifier.elems = given.ident.elems
            /\ built'[Len(built')].metadataLocation = given.metadataLocation
      /\ \A i \in 1..Len(built) :
            (i = 1 \/ bOp'.op # "Build" \/ Len(built) < 2)
              => /\ i <= Len(built')
                 /\ TableView(built'[i], heap') = TableView(built[i], heap)
    ]_vars

C10_Witness ==
  /\ Len(built) = 2
  /\ bOp.op = "set"
  /\ builder.properties # built[1].metadata.doc.props
  /\ builder.properties # 0
  /\ heap[builder.properties] # <<>>
  /\ builder.sortOrder # built[1].metadata.doc.sortOrder
  /\ built[1].metadata.doc.props # built[2].metadata.doc.props

====
